---- MODULE Spec2Model ----
(***************************************************************************)
(* Mental Wellness API (src/main.py, src/schemas.py).                      *)
(*                                                                         *)
(* State: the Mongo collections moodlog, appevent and userprofile, the     *)
(* UTC clock, the request being served and its response, and the position  *)
(* of every in-flight upsert_profile request.                              *)
(*                                                                         *)
(* Time is counted in ticks.  A second has TicksPerSec ticks (the          *)
(* sub-second part of a datetime), a day has SecsPerDay seconds.  Day      *)
(* numbers count from 1970-01-01, as the POSIX timestamp does.             *)
(* A float avg is held in hundredths (1.67 is 167); Python's None is the   *)
(* empty tuple and a present value v is <<v>>.                             *)
(***************************************************************************)
EXTENDS Integers, Sequences, FiniteSets, Bags, TLC

VARIABLES now, moodlog, appevent, userprofile, db_configured, reqs, call, result

vars == <<now, moodlog, appevent, userprofile, db_configured, reqs, call, result>>

(* ------------------------------ bounds -------------------------------- *)

\* documents the moodlog collection may hold
MaxLogs == 3
\* mood logs carry a logged_at on one of the days BaseDay .. BaseDay + MaxDay
MaxDay == 2
\* get_suggestions is asked for windows of 1 .. MaxWindow days
MaxWindow == 1
\* seconds of a day and ticks of a second in the model's clock
SecsPerDay == 2
TicksPerSec == 2
\* day number (days since 1970-01-01) of 2023-12-30: the days of the model
\* run over the end of a month and of a year
BaseDay == 19721
\* mood logs the moodlog collection may hold in SpecService
MaxWrites == 2
\* upsert_profile requests in flight in SpecProfile
MaxReqs == 3

DayTicks == SecsPerDay * TicksPerSec

Users == {"u1", "u2"}

\* schemas.MoodLog.mood is Literal[1,2,3,4,5]; the requests of the model
\* draw from these values of it
Moods == {1, 2, 4}

\* the server's local UTC offset, in seconds
TzOffsets == {-1, 0, 1}

\* logged_at of a request: half a tick-second past midnight of a model day
LogTimes == {(BaseDay + d) * DayTicks + 1 : d \in 0 .. MaxDay}

\* the clock: midnight of the last model day, or one second later
NowTimes == {(BaseDay + MaxDay) * DayTicks, (BaseDay + MaxDay) * DayTicks + TicksPerSec}

None == <<>>
Some(v) == <<v>>

(* --------------------------- schemas.MoodLog -------------------------- *)

\* the fields of a MoodLog that the handlers read (emoji, note and tags are
\* stored and never read back by a computation)
MoodLog == [anonymous_id : Users, mood : Moods, logged_at : LogTimes]

(* --------------------------- datetime helpers ------------------------- *)

\* timedelta(days=d), in ticks
timedelta(d) == d * DayTicks

\* naive_datetime.timestamp(): the naive value is read as local time, so
\* the POSIX timestamp is the value less the local UTC offset (in ticks,
\* the float's fraction of a second kept)
timestamp(dt, off) == dt - off * TicksPerSec

\* int(x) of a float of seconds held in ticks: truncation toward zero
int_trunc(t) == IF t >= 0 THEN t \div TicksPerSec ELSE -((-t) \div TicksPerSec)

\* datetime.fromtimestamp(s): local wall clock, in whole seconds
fromtimestamp(s, off) == s + off

\* datetime.date() of a wall clock given in seconds: its day number
date_of_secs(s) == s \div SecsPerDay

\* datetime.utcnow().date()
utc_today(clock) == clock \div DayTicks

\* date.__sub__(timedelta(days=1))
prev_day(d) == d - 1

\* logged_date with utcfromtimestamp in place of fromtimestamp
logged_date_utc(l, off) == date_of_secs(int_trunc(timestamp(l.logged_at, off)))

\* datetime.fromtimestamp(int(l["logged_at"].timestamp())).date()
logged_date(l, off) ==
    date_of_secs(fromtimestamp(int_trunc(timestamp(l.logged_at, off)), off))

\* the proleptic Gregorian calendar date <<year, month, day>> of a day number
civil_from_days(dn) ==
    LET z == dn + 719468
        era == z \div 146097
        doe == z - era * 146097
        yoe == (doe - doe \div 1460 + doe \div 36524 - doe \div 146096) \div 365
        doy == doe - (365 * yoe + yoe \div 4 - yoe \div 100)
        mp == (5 * doy + 2) \div 153
        d == doy - (153 * mp + 2) \div 5 + 1
        m == IF mp < 10 THEN mp + 3 ELSE mp - 9
        y == yoe + era * 400 + (IF m <= 2 THEN 1 ELSE 0)
    IN  <<y, m, d>>

\* "%0<w>d" % n as a sequence of ASCII codes
RECURSIVE zero_pad(_, _)
zero_pad(n, w) == IF w = 0 THEN <<>> ELSE Append(zero_pad(n \div 10, w - 1), 48 + (n % 10))

\* "YYYY-MM-DD" of a day number, as a sequence of ASCII codes
format_date(dn) ==
    LET c == civil_from_days(dn)
    IN  zero_pad(c[1], 4) \o <<45>> \o zero_pad(c[2], 2) \o <<45>> \o zero_pad(c[3], 2)

\* format_date, tabulated once over the days a date of the model can fall on
IsoTable == [dn \in (BaseDay - 3) .. (BaseDay + MaxDay + 3) |-> format_date(dn)]

\* date.isoformat()
isoformat(dn) == IsoTable[dn]

\* Python's str < str: lexicographic by code point
RECURSIVE str_less(_, _)
str_less(a, b) ==
    IF b = <<>> THEN FALSE
    ELSE IF a = <<>> THEN TRUE
    ELSE IF Head(a) # Head(b) THEN Head(a) < Head(b)
    ELSE str_less(Tail(a), Tail(b))

(* ------------------------------ numerics ------------------------------ *)

RECURSIVE sum(_)
sum(s) == IF s = <<>> THEN 0 ELSE Head(s) + sum(Tail(s))

\* round2 that cuts the digits after the second decimal instead of rounding
round2_floor(total, n) == (100 * total) \div n

\* round(total / n, 2), in hundredths: the nearest hundredth, and the even
\* one when total / n lies exactly halfway
round2(total, n) ==
    LET q == (100 * total) \div n
        r == (100 * total) % n
    IN  IF 2 * r < n THEN q
        ELSE IF 2 * r > n THEN q + 1
        ELSE IF q % 2 = 0 THEN q ELSE q + 1

(* --------------------------- the collections -------------------------- *)

\* list(cursor) of an unsorted find: the documents in any one order
RECURSIVE cursor_lists(_)
cursor_lists(B) ==
    IF DOMAIN B = {} THEN {<<>>}
    ELSE UNION {{<<e>> \o s : s \in cursor_lists(B (-) SetToBag({e}))} : e \in DOMAIN B}

\* create_document(collection, data)'s insert
insert_one(coll, doc) == coll (+) SetToBag({doc})

(* --------------------------- compute_insights ------------------------- *)

\* window_logs without the logged_at condition of the query
window_logs_all(store, anonymous_id, days, clock) ==
    [l \in {x \in DOMAIN store : x.anonymous_id = anonymous_id} |-> store[l]]

\* db["moodlog"].find({anonymous_id, logged_at >= since}): the matching
\* documents of the collection (a bag)
window_logs(store, anonymous_id, days, clock) ==
    LET since == clock - timedelta(days)
        hits == {l \in DOMAIN store : l.anonymous_id = anonymous_id /\ l.logged_at >= since}
    IN  [l \in hits |-> store[l]]

\* streak_from that counts every logged day once today has a log
streak_from_count(d, days_set) == IF d \in days_set THEN Cardinality(days_set) ELSE 0

\* while d in days_set: streak += 1; d = d - timedelta(days=1)
RECURSIVE streak_from(_, _)
streak_from(d, days_set) ==
    IF d \in days_set THEN 1 + streak_from(prev_day(d), days_set) ELSE 0

\* by.setdefault(d, []).append(mood) on an insertion-ordered dict
setdefault_append(by, k, v) ==
    IF \E i \in 1 .. Len(by) : by[i].key = k
    THEN [i \in 1 .. Len(by) |->
            IF by[i].key = k THEN [by[i] EXCEPT !.vals = Append(@, v)] ELSE by[i]]
    ELSE Append(by, [key |-> k, vals |-> <<v>>])

\* for l in logs: by.setdefault(isoformat(date), []).append(l["mood"])
RECURSIVE group_by_day(_, _, _)
group_by_day(logs, off, n) ==
    IF n = 0 THEN <<>>
    ELSE setdefault_append(group_by_day(logs, off, n - 1),
                           isoformat(logged_date(logs[n], off)), logs[n].mood)

\* insertion of one item into a list sorted by key
RECURSIVE insert_sorted(_, _)
insert_sorted(item, s) ==
    IF s = <<>> THEN <<item>>
    ELSE IF str_less(item.key, Head(s).key) THEN <<item>> \o s
    ELSE <<Head(s)>> \o insert_sorted(item, Tail(s))

\* sorted that leaves the items in the dict's insertion order
sorted_unsorted(items) == items

\* sorted(by.items()): ascending by key (the keys are distinct)
RECURSIVE sorted(_)
sorted(items) ==
    IF items = <<>> THEN <<>> ELSE insert_sorted(Head(items), sorted(Tail(items)))

\* the body of compute_insights once the query has returned logs
insights_of(logs, clock, off) ==
    IF logs = <<>>
    THEN [avg_mood |-> None, entries |-> 0, streak |-> 0, by_day |-> <<>>]
    ELSE
      LET avg == round2(sum([i \in 1 .. Len(logs) |-> logs[i].mood]), Len(logs))
          days_set == {logged_date(logs[i], off) : i \in 1 .. Len(logs)}
          streak == streak_from(utc_today(clock), days_set)
          by == sorted(group_by_day(logs, off, Len(logs)))
          by_day == [i \in 1 .. Len(by) |->
                       [date |-> by[i].key,
                        avg |-> round2(sum(by[i].vals), Len(by[i].vals))]]
      IN  [avg_mood |-> Some(avg), entries |-> Len(logs), streak |-> streak,
           by_day |-> by_day]

\* the results compute_insights(anonymous_id, days) may return: one for
\* each order the cursor may list the matching logs in and each local
\* UTC offset of the server
compute_insights(store, anonymous_id, days, clock) ==
    {insights_of(logs, clock, off) :
        logs \in cursor_lists(window_logs(store, anonymous_id, days, clock)),
        off \in TzOffsets}

(* ----------------------------- suggestions ---------------------------- *)

SUGGESTION_LIBRARY ==
    << [id |-> "breath-2", title |-> "Try this quick breathing reset", duration |-> 2, type |-> "breathing"],
       [id |-> "meditate-5", title |-> "Mini meditation", duration |-> 5, type |-> "meditation"],
       [id |-> "walk-5", title |-> "Micro-walk", duration |-> 5, type |-> "walk"],
       [id |-> "affirm-1", title |-> "Affirmation card", duration |-> 1, type |-> "affirmation"] >>

\* s[:n] of a list
slice_to(s, n) == SubSeq(s, 1, IF n < Len(s) THEN n ELSE Len(s))

REASON_START == "Suggested to help you start your routine"
REASON_LOW == "Suggested because your average mood has been low this week"
REASON_RECENT == "Suggested based on your recent logs"

\* avg_mood < 3 of a float held in hundredths
below_three(avg_mood) == avg_mood[1] < 300

\* low_mood_rule without its entries >= 3 condition
low_mood_rule_any(ins) == below_three(ins.avg_mood)

\* the rule of get_suggestions that picks the low-mood items
low_mood_rule(ins) == below_three(ins.avg_mood) /\ ins.entries >= 3

\* get_suggestions once compute_insights has returned ins
select_suggestions(ins) ==
    IF ins.avg_mood = None
    THEN [reason |-> REASON_START, items |-> slice_to(SUGGESTION_LIBRARY, 2),
          insights |-> ins]
    ELSE IF low_mood_rule(ins)
    THEN [reason |-> REASON_LOW,
          items |-> <<SUGGESTION_LIBRARY[1], SUGGESTION_LIBRARY[2]>>,
          insights |-> ins]
    ELSE [reason |-> REASON_RECENT,
          items |-> <<SUGGESTION_LIBRARY[3], SUGGESTION_LIBRARY[4]>>,
          insights |-> ins]

(* ------------------------------- insights ----------------------------- *)

SUMMARY_NONE == "No logs yet. Start with a 2-minute breathing reset."
SUMMARY_LOW == "Mood has been on the lower side recently."
SUMMARY_STABLE == "You're maintaining a stable mood trend."
ACTION_NONE == "Set a daily reminder at a calm time."
ACTION_LOW == "Try a daily 5-minute mini meditation for 3 days."
ACTION_STABLE == "Keep up the short check-ins and a micro-walk."

\* f"Nice streak: {streak} days in a row."
streak_sentence(streak) == "Nice streak: " \o ToString(streak) \o " days in a row."

\* summary_low with <= in place of <
summary_low_le(data) == data.avg_mood[1] <= 300

\* the branch of insights that words the summary as a low mood
summary_low(data) == below_three(data.avg_mood)

\* streak_acknowledged with > in place of >=
streak_acknowledged_gt(data) == data.streak > 3

\* the streak a summary acknowledges
streak_acknowledged(data) == data.streak >= 3

\* days = 7 if range == "7d" else 30
range_days(range) == IF range = "7d" THEN 7 ELSE 30

\* insights once compute_insights has returned data
summarize(data) ==
    IF data.avg_mood = None
    THEN [kpis |-> data, ai_summary |-> <<SUMMARY_NONE>>,
          suggested_actions |-> <<ACTION_NONE>>]
    ELSE
      LET first == IF summary_low(data) THEN SUMMARY_LOW ELSE SUMMARY_STABLE
          act == IF summary_low(data) THEN ACTION_LOW ELSE ACTION_STABLE
          summary == IF streak_acknowledged(data)
                     THEN <<first, streak_sentence(data.streak)>>
                     ELSE <<first>>
      IN  [kpis |-> data, ai_summary |-> summary, suggested_actions |-> <<act>>]

(* ------------------------- the insights service ----------------------- *)

Idle == [op |-> "idle", anonymous_id |-> "", days |-> 0]
NoResult == [status |-> "none"]

\* the mood logs a request may store, listed once
RECURSIVE ListOf(_)
ListOf(S) == IF S = {} THEN <<>> ELSE LET x == CHOOSE y \in S : TRUE IN <<x>> \o ListOf(S \ {x})

MoodLogList == ListOf(MoodLog)

\* the stores of n mood logs whose documents are MoodLogList[lo] or later:
\* every bag of n documents, built once
RECURSIVE StoresOfSize(_, _)
StoresOfSize(n, lo) ==
    IF n = 0 THEN {EmptyBag}
    ELSE UNION {{insert_one(b, MoodLogList[i]) : b \in StoresOfSize(n - 1, i)} :
                   i \in lo .. Len(MoodLogList)}

\* the moodlog collection after at most MaxLogs stored mood logs
Stores == UNION {StoresOfSize(n, 1) : n \in 0 .. MaxLogs}

\* the ranges a client passes to /api/insights: "7d", and one that is not
Ranges == {"7d", "30d"}

Init ==
    /\ now \in NowTimes
    /\ moodlog \in Stores
    /\ appevent = EmptyBag
    /\ userprofile = <<>>
    /\ db_configured = TRUE
    /\ reqs = <<>>
    /\ call = Idle
    /\ result = NoResult

\* GET /api/suggestions
get_suggestions(anonymous_id, days) ==
    /\ call.op = "idle"
    /\ \E ins \in compute_insights(moodlog, anonymous_id, days, now) :
          result' = select_suggestions(ins)
    /\ call' = [op |-> "get_suggestions", anonymous_id |-> anonymous_id, days |-> days]
    /\ UNCHANGED <<now, moodlog, appevent, userprofile, db_configured, reqs>>

\* GET /api/insights
insights(anonymous_id, range) ==
    /\ call.op = "idle"
    /\ \E data \in compute_insights(moodlog, anonymous_id, range_days(range), now) :
          result' = summarize(data)
    /\ call' = [op |-> "insights", anonymous_id |-> anonymous_id,
                days |-> range_days(range)]
    /\ UNCHANGED <<now, moodlog, appevent, userprofile, db_configured, reqs>>

\* the handler's return value goes out; the next request may be served
send_response ==
    /\ call.op # "idle"
    /\ call' = Idle
    /\ result' = NoResult
    /\ UNCHANGED <<now, moodlog, appevent, userprofile, db_configured, reqs>>

Next ==
    \/ \E u \in Users, d \in 1 .. MaxWindow : get_suggestions(u, d)
    \/ \E u \in Users, r \in Ranges : insights(u, r)
    \/ send_response

Spec == Init /\ [][Next]_vars

(* ------------------------------ mood logs ----------------------------- *)

\* the analytics event add_mood_log stores for a payload
mood_logged_event(payload, clock) ==
    [anonymous_id |-> payload.anonymous_id, event |-> "mood_logged",
     meta |-> [mood |-> payload.mood], created_at |-> clock]

\* HTTPException(status_code=500, detail=str(e))
http_500 == [status_code |-> 500, detail |-> "create_document failed"]

\* where a request's create_document calls may raise: nowhere, in the
\* moodlog insert, or in the appevent insert
Failures == {"none", "moodlog", "appevent"}

\* add_mood_log that stores the analytics event before the mood log
add_mood_log_event_first(store, events, payload, failing, clock) ==
    IF failing = "appevent"
    THEN [moodlog |-> store, appevent |-> events, response |-> http_500]
    ELSE IF failing = "moodlog"
    THEN [moodlog |-> store,
          appevent |-> insert_one(events, mood_logged_event(payload, clock)),
          response |-> http_500]
    ELSE [moodlog |-> insert_one(store, payload),
          appevent |-> insert_one(events, mood_logged_event(payload, clock)),
          response |-> [id |-> BagCardinality(store) + 1, status |-> "ok"]]

\* the body of add_mood_log: the two collections after it and its response.
\* A create_document that raises has inserted nothing, and the except
\* clause answers 500 with whatever was inserted before left in place.
add_mood_log_body(store, events, payload, failing, clock) ==
    IF failing = "moodlog"
    THEN [moodlog |-> store, appevent |-> events, response |-> http_500]
    ELSE IF failing = "appevent"
    THEN [moodlog |-> insert_one(store, payload), appevent |-> events,
          response |-> http_500]
    ELSE [moodlog |-> insert_one(store, payload),
          appevent |-> insert_one(events, mood_logged_event(payload, clock)),
          response |-> [id |-> BagCardinality(store) + 1, status |-> "ok"]]

InitService ==
    /\ now \in NowTimes
    /\ moodlog = EmptyBag
    /\ appevent = EmptyBag
    /\ userprofile = <<>>
    /\ db_configured = TRUE
    /\ reqs = <<>>
    /\ call = Idle
    /\ result = NoResult

\* POST /api/moodlog
add_mood_log(payload, failing) ==
    /\ call.op = "idle"
    /\ BagCardinality(moodlog) < MaxWrites
    /\ LET after == add_mood_log_body(moodlog, appevent, payload, failing, now)
       IN  /\ moodlog' = after.moodlog
           /\ appevent' = after.appevent
           /\ result' = after.response
    /\ call' = [op |-> "add_mood_log", anonymous_id |-> payload.anonymous_id,
                days |-> 0, payload |-> payload]
    /\ UNCHANGED <<now, userprofile, db_configured, reqs>>

\* the service from an empty database: mood logs are written and read
NextService ==
    \/ \E payload \in MoodLog, failing \in Failures : add_mood_log(payload, failing)
    \/ \E u \in Users, d \in 1 .. MaxWindow : get_suggestions(u, d)
    \/ \E u \in Users, r \in Ranges : insights(u, r)
    \/ send_response

SpecService == InitService /\ [][NextService]_vars

(* ------------------------------- profiles ----------------------------- *)

\* the display names the profile requests of the model carry
Names == {"a", "b"}

\* the fields of a UserProfile payload that tell two requests apart
UserProfile == [anonymous_id : Users, name : Names]

\* db["userprofile"].find_one({"anonymous_id": id}): the _id (the position)
\* of the first matching document, or None
find_one(coll, anonymous_id) ==
    LET hits == {i \in 1 .. Len(coll) : coll[i].anonymous_id = anonymous_id}
    IN  IF hits = {} THEN None ELSE Some(CHOOSE i \in hits : \A j \in hits : i <= j)

\* db["userprofile"].update_one({"_id": id}, {"$set": data})
update_one(coll, id, data) == [coll EXCEPT ![id] = data]

\* payload.model_dump() with data["updated_at"] set
profile_data(payload, clock) ==
    [anonymous_id |-> payload.anonymous_id, name |-> payload.name, updated_at |-> clock]

\* the number of upsert_profile requests that have written
writes_done == Cardinality({i \in 1 .. Len(reqs) : reqs[i].written > 0})

InitProfile ==
    /\ now \in NowTimes
    /\ moodlog = EmptyBag
    /\ appevent = EmptyBag
    /\ userprofile = <<>>
    /\ db_configured \in BOOLEAN
    /\ reqs = <<>>
    /\ call = Idle
    /\ result = NoResult

\* POST /api/profile, up to its find_one: the db check, model_dump and the
\* read of the existing document
upsert_profile_find(payload) ==
    /\ Len(reqs) < MaxReqs
    /\ reqs' = Append(reqs,
         IF ~db_configured
         THEN [payload |-> payload, pc |-> "done", existing |-> None,
               status |-> "500", written |-> 0]
         ELSE [payload |-> payload, pc |-> "write",
               existing |-> find_one(userprofile, payload.anonymous_id),
               status |-> "none", written |-> 0])
    /\ UNCHANGED <<now, moodlog, appevent, userprofile, db_configured, call, result>>

\* POST /api/profile, from "if existing": update_one or create_document,
\* and the response
upsert_profile_write(i) ==
    /\ reqs[i].pc = "write"
    /\ LET data == profile_data(reqs[i].payload, now)
       IN  IF reqs[i].existing # None
           THEN /\ userprofile' = update_one(userprofile, reqs[i].existing[1], data)
                /\ reqs' = [reqs EXCEPT ![i].pc = "done", ![i].status = "updated",
                                        ![i].written = writes_done + 1]
           ELSE /\ userprofile' = Append(userprofile, data)
                /\ reqs' = [reqs EXCEPT ![i].pc = "done", ![i].status = "created",
                                        ![i].written = writes_done + 1]
    /\ UNCHANGED <<now, moodlog, appevent, db_configured, call, result>>

NextProfile ==
    \/ \E payload \in UserProfile : upsert_profile_find(payload)
    \/ \E i \in 1 .. Len(reqs) : upsert_profile_write(i)

SpecProfile == InitProfile /\ [][NextProfile]_vars

(* ===================== properties of the insights ===================== *)

\* a request has been served and its response is in result
Called == call.op \in {"get_suggestions", "insights"}

\* the InsightsResult inside the response
Kpis == IF call.op = "get_suggestions" THEN result.insights ELSE result.kpis

\* the UTC calendar day of an instant
UTCDay(t) == t \div DayTicks

\* the stored mood logs of a user, and those of them inside the window
UserDocs(u) == {l \in DOMAIN moodlog : l.anonymous_id = u}
InWindowDocs(u, days) == {l \in UserDocs(u) : l.logged_at >= now - days * DayTicks}

RECURSIVE DocCount(_)
DocCount(S) ==
    IF S = {} THEN 0 ELSE LET l == CHOOSE x \in S : TRUE IN moodlog[l] + DocCount(S \ {l})

RECURSIVE MoodTotal(_)
MoodTotal(S) ==
    IF S = {} THEN 0
    ELSE LET l == CHOOSE x \in S : TRUE IN moodlog[l] * l.mood + MoodTotal(S \ {l})

\* h hundredths is total / n rounded to 2 decimals
IsRoundedMean(h, total, n) ==
    LET diff == 100 * total - h * n
    IN  2 * (IF diff >= 0 THEN diff ELSE -diff) <= n

\* the number of consecutive days, walking backward from today, up to the
\* first day that is not in D
RunLength(D) ==
    LET today == UTCDay(now)
    IN  CHOOSE k \in 0 .. (MaxDay + 1) :
           /\ \A j \in 0 .. (k - 1) : (today - j) \in D
           /\ (today - k) \notin D

\* the calendar, written out for the days of the model
DateString(dn) ==
    CASE dn = 19721 -> <<50, 48, 50, 51, 45, 49, 50, 45, 51, 48>>   \* 2023-12-30
      [] dn = 19722 -> <<50, 48, 50, 51, 45, 49, 50, 45, 51, 49>>   \* 2023-12-31
      [] dn = 19723 -> <<50, 48, 50, 52, 45, 48, 49, 45, 48, 49>>   \* 2024-01-01
      [] dn = 19724 -> <<50, 48, 50, 52, 45, 48, 49, 45, 48, 50>>   \* 2024-01-02
      [] dn = 19725 -> <<50, 48, 50, 52, 45, 48, 49, 45, 48, 51>>   \* 2024-01-03
      [] OTHER -> <<>>

\* a < b for two strings of equal length
StringBefore(a, b) ==
    \E k \in 1 .. Len(a) : a[k] < b[k] /\ \A j \in 1 .. (k - 1) : a[j] = b[j]

\* C1 as stated: the streak is the length of the unbroken run of days, ending
\* today, on which the user has a stored mood record.
C1_StreakOverStoredRecords ==
    Called => Kpis.streak = RunLength({UTCDay(l.logged_at) : l \in UserDocs(call.anonymous_id)})

\* C1 (amended): the streak is the length of the unbroken run of days, ending
\* today (the UTC date of the clock), on which the user has a mood record
\* inside the window (logged_at >= now - days); it is 0 when today has none,
\* and records before the first gap, or outside the window, never add to it.
C1_StreakOverWindow ==
    Called => Kpis.streak =
                RunLength({UTCDay(l.logged_at) : l \in InWindowDocs(call.anonymous_id, call.days)})

\* a run of three days, every one inside the window
C1_Witness ==
    /\ Called
    /\ Kpis.streak = 3
    /\ Cardinality({UTCDay(l.logged_at) : l \in InWindowDocs(call.anonymous_id, call.days)}) = 3

\* C2: by_day is strictly ascending by date string, has exactly one entry for
\* each UTC calendar date with a record in the window and none for another
\* date, and every entry's avg is the mean of that date's moods rounded to 2
\* decimals.
C2_ByDay ==
    Called =>
      LET W == InWindowDocs(call.anonymous_id, call.days)
          D == {UTCDay(l.logged_at) : l \in W}
          bd == Kpis.by_day
      IN  W # {} =>
            /\ \A i \in 1 .. (Len(bd) - 1) : StringBefore(bd[i].date, bd[i + 1].date)
            /\ Len(bd) = Cardinality(D)
            /\ {bd[i].date : i \in 1 .. Len(bd)} = {DateString(d) : d \in D}
            /\ \A i \in 1 .. Len(bd) : \A d \in D :
                 bd[i].date = DateString(d) =>
                   LET on == {l \in W : UTCDay(l.logged_at) = d}
                   IN  IsRoundedMean(bd[i].avg, MoodTotal(on), DocCount(on))

\* two dates on either side of the new year, the later one with moods 2 and 4
C2_Witness ==
    /\ Called
    /\ Len(Kpis.by_day) = 2
    /\ Kpis.by_day[1].date = DateString(19722)
    /\ Kpis.by_day[2] = [date |-> DateString(19723), avg |-> 300]
    /\ Kpis.entries = 3

\* C3: entries is the number of records in the window and avg_mood their
\* mean rounded to 2 decimals.
C3_EntriesAndAverage ==
    Called =>
      LET W == InWindowDocs(call.anonymous_id, call.days)
      IN  W # {} =>
            /\ Kpis.entries = DocCount(W)
            /\ Kpis.avg_mood # None
            /\ IsRoundedMean(Kpis.avg_mood[1], MoodTotal(W), DocCount(W))

\* moods 1, 2, 2 give 1.67
C3_Witness ==
    /\ Called
    /\ Kpis.entries = 3
    /\ MoodTotal(InWindowDocs(call.anonymous_id, call.days)) = 5
    /\ Kpis.avg_mood = Some(167)

\* C4: with no record of the user inside the window the result is exactly
\* {avg_mood: null, entries: 0, streak: 0, by_day: []}, and avg_mood is null
\* in no other case.
C4_EmptyWindow ==
    Called =>
      LET W == InWindowDocs(call.anonymous_id, call.days)
      IN  /\ W = {} => Kpis = [avg_mood |-> <<>>, entries |-> 0, streak |-> 0, by_day |-> <<>>]
          /\ Kpis.avg_mood = <<>> => W = {}

\* the user has records, all of them older than the window
C4_Witness ==
    /\ Called
    /\ UserDocs(call.anonymous_id) # {}
    /\ InWindowDocs(call.anonymous_id, call.days) = {}
    /\ Kpis.avg_mood = <<>>

\* C5: the suggestion selection returns 2 catalog items and a reason by the
\* rule table, first match wins.
C5_RuleTable ==
    call.op = "get_suggestions" =>
      LET ins == result.insights
          ids == [i \in 1 .. Len(result.items) |-> result.items[i].id]
      IN  /\ Len(result.items) = 2
          /\ \A i \in 1 .. 2 : result.items[i] \in {SUGGESTION_LIBRARY[j] : j \in 1 .. 4}
          /\ IF ins.avg_mood = <<>>
             THEN /\ ids = <<"breath-2", "meditate-5">>
                  /\ result.reason = "Suggested to help you start your routine"
             ELSE IF ins.avg_mood[1] < 300 /\ ins.entries >= 3
             THEN /\ ids = <<"breath-2", "meditate-5">>
                  /\ result.reason = "Suggested because your average mood has been low this week"
             ELSE /\ ids = <<"walk-5", "affirm-1">>
                  /\ result.reason = "Suggested based on your recent logs"

\* a low average over fewer than 3 entries falls to the last rule
C5_Witness ==
    /\ call.op = "get_suggestions"
    /\ result.insights.avg_mood # <<>>
    /\ result.insights.avg_mood[1] < 300
    /\ result.insights.entries < 3
    /\ result.reason = "Suggested based on your recent logs"

\* C6 as stated: the summary takes the branch the suggestion selection takes
\* for the same insights result.
C6_SameBranch ==
    call.op = "insights" =>
      LET first == result.ai_summary[1]
          reason == select_suggestions(result.kpis).reason
      IN  /\ first = "No logs yet. Start with a 2-minute breathing reset."
                <=> reason = "Suggested to help you start your routine"
          /\ first = "Mood has been on the lower side recently."
                <=> reason = "Suggested because your average mood has been low this week"
          /\ first = "You're maintaining a stable mood trend."
                <=> reason = "Suggested based on your recent logs"

\* C6 (amended): the summary is the no-logs one exactly when avg_mood is
\* null, the low-mood one exactly when avg_mood < 3 whatever entries is, and
\* the stable one exactly when avg_mood >= 3; it takes the branch of the
\* suggestion selection except when avg_mood < 3 and entries < 3, where the
\* summary is the low-mood one and the suggestion selection takes its
\* otherwise rule.
C6_SummaryBranch ==
    call.op = "insights" =>
      LET first == result.ai_summary[1]
          k == result.kpis
          reason == select_suggestions(k).reason
          low == k.avg_mood # <<>> /\ k.avg_mood[1] < 300
      IN  /\ first = "No logs yet. Start with a 2-minute breathing reset." <=> k.avg_mood = <<>>
          /\ first = "Mood has been on the lower side recently." <=> low
          /\ first = "You're maintaining a stable mood trend."
                <=> (k.avg_mood # <<>> /\ k.avg_mood[1] >= 300)
          /\ k.avg_mood = <<>> => reason = "Suggested to help you start your routine"
          /\ (low /\ k.entries >= 3)
                => reason = "Suggested because your average mood has been low this week"
          /\ (low /\ k.entries < 3) => reason = "Suggested based on your recent logs"
          /\ (k.avg_mood # <<>> /\ ~low) => reason = "Suggested based on your recent logs"

\* a low average over fewer than 3 entries: a low-mood summary
C6_Witness ==
    /\ call.op = "insights"
    /\ result.kpis.avg_mood # <<>>
    /\ result.kpis.avg_mood[1] < 300
    /\ result.kpis.entries < 3
    /\ result.ai_summary[1] = "Mood has been on the lower side recently."

\* the streak acknowledgements a summary of the model can hold
Acknowledgements == {"Nice streak: " \o ToString(n) \o " days in a row." : n \in 0 .. (MaxDay + 2)}

\* C7: the summary holds the streak acknowledgement if and only if
\* streak >= 3, in every branch; it is then the last element, the only
\* acknowledgement, and names the streak of the insights result.
C7_StreakAcknowledged ==
    call.op = "insights" =>
      LET s == result.ai_summary
          k == result.kpis.streak
          at == {i \in 1 .. Len(s) : s[i] \in Acknowledgements}
      IN  /\ k >= 3 <=> at # {}
          /\ at # {} =>
               /\ at = {Len(s)}
               /\ s[Len(s)] = "Nice streak: " \o ToString(k) \o " days in a row."
          /\ k = 3 => s[Len(s)] = "Nice streak: 3 days in a row."
          /\ k = 4 => s[Len(s)] = "Nice streak: 4 days in a row."

\* a 3-day streak acknowledged after a low-mood summary
C7_Witness ==
    /\ call.op = "insights"
    /\ result.kpis.streak = 3
    /\ result.ai_summary = <<"Mood has been on the lower side recently.",
                             "Nice streak: 3 days in a row.">>

\* a request that only reads has just been answered
ReadStep == call.op = "idle" /\ call'.op \in {"get_suggestions", "insights"}

\* every result compute_insights can return for the request just served,
\* whatever order the cursor lists the logs in and whatever the server's
\* UTC offset, is the one result; and the picks and reason follow from
\* (avg_mood, entries) alone
SameResult ==
    Called =>
      /\ \A r \in compute_insights(moodlog, call.anonymous_id, call.days, now) : r = Kpis
      /\ call.op = "get_suggestions" =>
           LET bare == select_suggestions([avg_mood |-> Kpis.avg_mood, entries |-> Kpis.entries,
                                           streak |-> 0, by_day |-> <<>>])
           IN  bare.reason = result.reason /\ bare.items = result.items

\* C8: calls of compute_insights over the same stored records, window and
\* clock return the same result, the suggestion selection is a function of
\* (avg_mood, entries), and no such call changes a stored record.
C8_Deterministic ==
    /\ []SameResult
    /\ [][ReadStep => UNCHANGED <<moodlog, appevent, userprofile>>]_vars

\* a result over two stored logs of different days, which the cursor may
\* list in either order
C8_Witness ==
    /\ Called
    /\ Cardinality(InWindowDocs(call.anonymous_id, call.days)) = 2
    /\ Len(Kpis.by_day) = 2

(* ===================== properties of the writes ======================= *)

\* the request being answered is an add_mood_log that has just run
AddMoodLogStep == call.op = "idle" /\ call'.op = "add_mood_log"

IsError(r) == "status_code" \in DOMAIN r
IsOk(r) == "status" \in DOMAIN r /\ r.status = "ok"

\* C10 as stated: add_mood_log is all-or-nothing: a 500 answer leaves no
\* mood log of the request in moodlog, and an "ok" answer has stored the
\* mood log and exactly one matching mood_logged event.
C10_AllOrNothing ==
    [][AddMoodLogStep =>
         /\ IsError(result') => moodlog' = moodlog
         /\ IsOk(result') =>
              /\ moodlog' = moodlog (+) SetToBag({call'.payload})
              /\ appevent' = appevent (+) SetToBag({[anonymous_id |-> call'.payload.anonymous_id,
                                                     event |-> "mood_logged",
                                                     meta |-> [mood |-> call'.payload.mood],
                                                     created_at |-> now]})]_vars

\* C10 (amended): an "ok" answer has stored the mood log and exactly one
\* matching mood_logged event; a 500 answer has stored no analytics event,
\* and the request's mood log is either not stored or, when it was the
\* analytics write that failed, left stored.
C10_Writes ==
    [][AddMoodLogStep =>
         /\ IsError(result') \/ IsOk(result')
         /\ IsError(result') =>
              /\ appevent' = appevent
              /\ moodlog' \in {moodlog, moodlog (+) SetToBag({call'.payload})}
         /\ IsOk(result') =>
              /\ moodlog' = moodlog (+) SetToBag({call'.payload})
              /\ appevent' = appevent (+) SetToBag({[anonymous_id |-> call'.payload.anonymous_id,
                                                     event |-> "mood_logged",
                                                     meta |-> [mood |-> call'.payload.mood],
                                                     created_at |-> now]})]_vars

\* a 500 answer with the request's mood log stored and no event for it
C10_Witness ==
    /\ call.op = "add_mood_log"
    /\ IsError(result)
    /\ BagIn(call.payload, moodlog)
    /\ appevent = EmptyBag

\* the finished upsert_profile requests for an id that wrote
Writers(u) == {i \in 1 .. Len(reqs) : reqs[i].written > 0 /\ reqs[i].payload.anonymous_id = u}

\* C9: after any interleaving of upsert_profile requests userprofile holds
\* at most one document per anonymous_id, one request for an id answers
\* "created" and every other one "updated", and the stored document carries
\* the fields of the last request to write.
C9_OneProfilePerId ==
    \A u \in Users :
      LET docs == {i \in 1 .. Len(userprofile) : userprofile[i].anonymous_id = u}
          W == Writers(u)
      IN  /\ Cardinality(docs) <= 1
          /\ Cardinality({i \in W : reqs[i].status = "created"}) <= 1
          /\ W # {} =>
               LET last == CHOOSE i \in W : \A j \in W : reqs[j].written <= reqs[i].written
               IN  \E d \in docs : /\ userprofile[d].name = reqs[last].payload.name
                                   /\ \A e \in docs : e = d

====
